---- MODULE Spec2Model ----
(***************************************************************************)
(* The secret-retrieval flow of the one-time-secret web client: the App    *)
(* component's route handling and handleRevealSecret state machine, the    *)
(* OTSService transport adapter (retrieveSecret, handleError) and the      *)
(* Router.  JavaScript strings are TLA+ strings, so String.includes, ||,   *)
(* trim and concatenation are computed on the same characters the code     *)
(* sees (matching is case-sensitive, as in the code).                      *)
(***************************************************************************)
EXTENDS Integers, Sequences, FiniteSets, TLC

(***************************************************************************)
(* Bounds of the model.                                                    *)
(***************************************************************************)
\* retrieveSecret calls that may be awaiting their response at once
MaxPending == 2
\* redirect timers that may be set and not yet fired at once
MaxTimers == 2
\* fragments a backend failure message is put together from
MaxMsgParts == 2

(***************************************************************************)
(* Program constants.                                                      *)
(***************************************************************************)
\* setTimeout(() => Router.goHome(), 3000)
RedirectDelayMs == 3000
\* if (data.message.length > 10) return new Error(data.message)
ShortMessageMax == 10

(***************************************************************************)
(* JavaScript values.                                                      *)
(***************************************************************************)
\* the value of an optional field or parameter that is absent
Undef == "<undefined>"

\* truthiness of an optional string: undefined and '' are falsy
Truthy(s) == s # Undef /\ s # ""

\* a || b on optional strings
OrElse(a, b) == IF Truthy(a) THEN a ELSE b

\* String.prototype.includes (case-sensitive substring search)
Includes(s, sub) ==
    \E i \in 1..(Len(s) + 1 - Len(sub)) : SubSeq(s, i, i + Len(sub) - 1) = sub

\* optional chaining data?.message?.includes(sub): false when there is no message
MsgIncludes(m, sub) == m # Undef /\ Includes(m, sub)

\* white space characters
WhiteSpace == {" ", "\t", "\n", "\r"}

RECURSIVE TrimStart(_)
TrimStart(s) ==
    IF Len(s) > 0 /\ SubSeq(s, 1, 1) \in WhiteSpace THEN TrimStart(SubSeq(s, 2, Len(s))) ELSE s

RECURSIVE TrimEnd(_)
TrimEnd(s) ==
    IF Len(s) > 0 /\ SubSeq(s, Len(s), Len(s)) \in WhiteSpace
    THEN TrimEnd(SubSeq(s, 1, Len(s) - 1))
    ELSE s

\* String.prototype.trim
Trim(s) == TrimEnd(TrimStart(s))

(***************************************************************************)
(* Messages of the client (OTSService.ts, App).                            *)
(***************************************************************************)
MsgUnavailable ==
    "Este segredo não está disponível. Pode estar expirado, ter sido acessado anteriormente, ter uma senha incorreta ou não existir."
MsgTimeout == "Timeout: Verifique sua conexão com a internet"
MsgBadPassphrase400 == "Senha incorreta ou obrigatória"
MsgInvalidData == "Dados inválidos fornecidos"
MsgUnauthorized == "Não autorizado: Verifique suas credenciais"
MsgForbidden == "Acesso negado"
MsgRateLimited404 ==
    "Muitas tentativas em pouco tempo. Aguarde alguns segundos e tente novamente."
MsgExpired == "Segredo expirado ou já visualizado"
MsgInvalidPassphrase == "Senha inválida, segredo expirado ou já visualizado"
MsgPassphraseRequired == "Este segredo requer uma senha para ser acessado"
MsgRateLimited429 == "Muitas tentativas: Tente novamente em alguns minutos"
MsgServerErrorPrefix == "Erro interno do servidor: "
MsgTryLater == "Tente novamente mais tarde"
MsgBadGateway == "Backend indisponível: Verifique se o serviço está funcionando"
MsgServiceUnavailable == "Serviço temporariamente indisponível"
MsgHttpErrorPrefix == "Erro HTTP "
MsgNoConnection ==
    "Erro de conexão: Verifique se o backend está rodando e tente novamente"
MsgKeyNotFound == "Chave do segredo não encontrada"
MsgTypePassphrase == "Por favor, digite a senha do segredo"
MsgPageNotFound == "Página não encontrada"

(***************************************************************************)
(* What the backend (or the network) answers to one retrieve request.      *)
(*   kind "ok"         a 2xx response; message, value, secret are the      *)
(*                     fields of its JSON body (Undef when absent)         *)
(*   kind "http"       an axios error carrying a non-2xx response          *)
(*   kind "timeout"    an axios error with code ECONNABORTED / ETIMEDOUT   *)
(*   kind "noResponse" an axios error with a request and no response       *)
(***************************************************************************)
Response(kind, status, message, value, secret) ==
    [kind |-> kind, status |-> status, message |-> message,
     value |-> value, secret |-> secret]

NoResponse == Response("none", 0, Undef, Undef, Undef)

\* a handleError that would pass every backend message on as the error
\* text, whatever its length
HandleErrorEchoingMessage(resp, hasPassphrase) ==
    IF resp.kind = "http" /\ Truthy(resp.message) THEN resp.message
    ELSE IF resp.kind = "http" THEN MsgExpired
    ELSE MsgNoConnection

\* OTSService.handleError for an axios error
HandleError(resp, hasPassphrase) ==
    LET m == resp.message IN
    IF resp.kind = "timeout" THEN MsgTimeout
    ELSE IF resp.kind = "http" THEN
        CASE resp.status = 400 ->
                IF Truthy(m) /\ (Includes(m, "passphrase") \/ Includes(m, "password"))
                THEN MsgBadPassphrase400
                ELSE OrElse(m, MsgInvalidData)
          [] resp.status = 401 -> MsgUnauthorized
          [] resp.status = 403 -> MsgForbidden
          [] resp.status = 404 ->
                IF ~Truthy(m) THEN MsgExpired
                ELSE IF Includes(m, "rate limited") \/ Includes(m, "Cripes!")
                    THEN MsgRateLimited404
                ELSE IF Includes(m, "expired") \/ Includes(m, "expirado")
                        \/ Includes(m, "consumed")
                    THEN MsgExpired
                ELSE IF Includes(m, "viewed") \/ Includes(m, "visualizado")
                        \/ Includes(m, "no longer available")
                    THEN MsgExpired
                ELSE IF Includes(m, "Unknown secret")
                    THEN IF hasPassphrase THEN MsgInvalidPassphrase
                                          ELSE MsgPassphraseRequired
                ELSE IF Includes(m, "passphrase") \/ Includes(m, "password")
                        \/ Includes(m, "Wrong")
                    THEN IF hasPassphrase THEN MsgInvalidPassphrase
                                          ELSE MsgPassphraseRequired
                ELSE IF Len(m) > ShortMessageMax THEN m
                ELSE MsgExpired
          [] resp.status = 429 -> MsgRateLimited429
          [] resp.status = 500 -> MsgServerErrorPrefix \o OrElse(m, MsgTryLater)
          [] resp.status = 502 -> MsgBadGateway
          [] resp.status = 503 -> MsgServiceUnavailable
          [] OTHER -> OrElse(m, MsgHttpErrorPrefix \o ToString(resp.status))
    ELSE MsgNoConnection

\* a message field that is not text and not falsy (a number, an object):
\* it has no includes method
NonText == "<non-text>"

\* the message of the TypeError raised when includes is called on it
MsgTypeError == "data.message.includes is not a function"

\* the 'Unknown secret' test in the catch of retrieveSecret raises a
\* TypeError
UnknownSecretTestThrows(resp) ==
    resp.kind = "http" /\ resp.status = 404 /\ resp.message = NonText

\* handleError raises a TypeError instead of returning: the tests of case
\* 400 and case 404 call data.message.includes
HandleErrorThrows(resp) ==
    resp.kind = "http" /\ resp.status \in {400, 404} /\ resp.message = NonText

\* the value a retrieveSecret call settles with
Resolved(secret) == [ok |-> TRUE, secret |-> secret, error |-> Undef]
Rejected(message) == [ok |-> FALSE, secret |-> Undef, error |-> message]

\* a retrieveSecret that would not look at the message field of a 2xx body
\* (content then reaches the view from a body C4 counts as a failure)
RetrieveSecretIgnoringMessage(resp, passphrase) ==
    IF resp.kind = "ok" THEN
        LET secretValue == OrElse(resp.value, resp.secret) IN
        IF ~Truthy(secretValue) THEN Rejected(MsgUnavailable)
        ELSE Resolved(secretValue)
    ELSE Rejected(HandleError(resp, Truthy(passphrase)))

\* OTSService.retrieveSecret, given the answer to its POST
RetrieveSecret(resp, passphrase) ==
    IF resp.kind = "ok" THEN
        \* try block; the Error thrown here is not an axios error and its
        \* message includes 'Este segredo não está disponível': rethrown as is
        IF Truthy(resp.message) THEN Rejected(MsgUnavailable)
        ELSE LET secretValue == OrElse(resp.value, resp.secret) IN
             IF ~Truthy(secretValue) THEN Rejected(MsgUnavailable)
             ELSE Resolved(secretValue)
    ELSE
        \* catch block, axios.isAxiosError(error)
        IF UnknownSecretTestThrows(resp) THEN Rejected(MsgTypeError)
        ELSE IF resp.kind = "http" /\ resp.status = 404
           /\ MsgIncludes(resp.message, "Unknown secret")
        THEN Rejected(MsgUnavailable)
        ELSE IF HandleErrorThrows(resp) THEN Rejected(MsgTypeError)
        ELSE Rejected(HandleError(resp, Truthy(passphrase)))

\* handleRevealSecret, first attempt, the tests of its catch block
IsExpiryMessage(errorMessage) ==
    \/ Includes(errorMessage, "expirou")
    \/ Includes(errorMessage, "expired")
    \/ Includes(errorMessage, "visualizado")
    \/ Includes(errorMessage, "viewed")
    \/ Includes(errorMessage, "não está mais disponível")
    \/ Includes(errorMessage, "consumed")
    \/ Includes(errorMessage, "no longer available")
    \/ Includes(errorMessage, "Segredo expirado ou já visualizado")

IsRateLimitMessage(errorMessage) ==
    \/ Includes(errorMessage, "rate limited")
    \/ Includes(errorMessage, "Muitas tentativas")

\* a passphrase test without the 'senha' alternative (the message that
\* retrieveSecret throws for 404 'Unknown secret' then fails it)
IsPassphraseMessageWithoutSenha(errorMessage) ==
    \/ Includes(errorMessage, "Este segredo requer uma senha para ser acessado")
    \/ Includes(errorMessage, "Senha inválida, segredo expirado ou já visualizado")
    \/ Includes(errorMessage, "passphrase")

\* a passphrase test that would also take a connection error for a
\* passphrase error
IsPassphraseMessageOrConnection(errorMessage) ==
    \/ Includes(errorMessage, "passphrase")
    \/ Includes(errorMessage, "senha")
    \/ Includes(errorMessage, "conexão")

IsPassphraseMessage(errorMessage) ==
    \/ Includes(errorMessage, "Este segredo requer uma senha para ser acessado")
    \/ Includes(errorMessage, "Senha inválida, segredo expirado ou já visualizado")
    \/ Includes(errorMessage, "passphrase")
    \/ Includes(errorMessage, "senha")

\* one catch block for both attempts: the second attempt too would ask for
\* the passphrase
CatchBranchPromptingAlways(attempt, errorMessage) ==
    IF IsExpiryMessage(errorMessage) THEN "terminal"
    ELSE IF IsRateLimitMessage(errorMessage) THEN "terminal"
    ELSE IF IsPassphraseMessage(errorMessage) THEN "prompt"
    ELSE "terminal"

\* the branch the catch block of an attempt takes: "prompt" asks for the
\* passphrase (first attempt only), "terminal" shows the error and schedules
\* the redirect
CatchBranch(attempt, errorMessage) ==
    IF IsExpiryMessage(errorMessage) THEN "terminal"
    ELSE IF IsRateLimitMessage(errorMessage) THEN "terminal"
    ELSE IF attempt = "probe" /\ IsPassphraseMessage(errorMessage) THEN "prompt"
    ELSE "terminal"

(***************************************************************************)
(* Router.                                                                 *)
(***************************************************************************)
AlnumChars ==
    {"a","b","c","d","e","f","g","h","i","j","k","l","m","n","o","p","q","r","s",
     "t","u","v","w","x","y","z","A","B","C","D","E","F","G","H","I","J","K","L",
     "M","N","O","P","Q","R","S","T","U","V","W","X","Y","Z","0","1","2","3","4",
     "5","6","7","8","9"}

\* [a-zA-Z0-9]+
IsAlnumWord(s) == Len(s) > 0 /\ \A i \in 1..Len(s) : SubSeq(s, i, i) \in AlnumChars

SecretPrefix == "/secret/"

Route(type, secretKey, passphrase) ==
    [type |-> type, secretKey |-> secretKey, passphrase |-> passphrase]

\* Router.parseRoute on window.location: url.path is location.pathname and
\* url.p is searchParams.get('p') (Undef when the parameter is absent)
ParseRoute(url) ==
    IF url.path = "/" \/ url.path = "" THEN Route("home", Undef, Undef)
    ELSE IF /\ Len(url.path) > Len(SecretPrefix)
            /\ SubSeq(url.path, 1, Len(SecretPrefix)) = SecretPrefix
            /\ IsAlnumWord(SubSeq(url.path, Len(SecretPrefix) + 1, Len(url.path)))
        THEN Route("secret",
                   SubSeq(url.path, Len(SecretPrefix) + 1, Len(url.path)),
                   OrElse(url.p, Undef))
    ELSE Route("notfound", Undef, Undef)



(***************************************************************************)
(* Inputs.                                                                 *)
(***************************************************************************)
\* window.location: path is location.pathname, p is searchParams.get('p')
\* (Undef when the address has no such parameter)
Url(path, p) == [path |-> path, p |-> p]

\* Router.goHome: Router.navigate('/')
HomeUrl == Url("/", Undef)

\* secret keys a link may carry: one of 20 characters, one shorter
Key1 == "a1B2c3D4e5F6g7H8i9J0"
Key2 == "k2short"
Keys == {Key1, Key2}

\* values of the URL parameter p: absent, empty, or a passphrase
UrlPassphrases == {Undef, "", "urlpw"}

\* addresses the browser may be sent to (typed, followed link, back/forward)
Urls ==
    {Url("/", Undef), Url("/secret/not-a-key", Undef), Url(SecretPrefix \o Key2, Undef)}
        \cup {Url(SecretPrefix \o Key1, q) : q \in UrlPassphrases}

\* what the user may have typed into the passphrase input at a reveal event
TypedPassphrases == {"", "  ", "hunter2"}

\* the content of the secret
Content == "TOP-SECRET"

\* a value the backend sends along with an embedded error
Embedded == "EMBEDDED"

\* answers of the backend exercised by the flow
FlowResponses ==
    { Response("ok", 200, Undef, Content, Undef),
      Response("ok", 200, Undef, Undef, Content),
      Response("ok", 200, "Unknown secret", Embedded, Undef),
      Response("ok", 200, Undef, Undef, Undef),
      Response("http", 404, "Unknown secret", Undef, Undef),
      Response("http", 404, "Secret not found. Either expired or consumed.", Undef, Undef),
      Response("http", 400, "Passphrase required to view this secret.", Undef, Undef),
      Response("http", 429, Undef, Undef, Undef),
      Response("http", 502, "Backend service unavailable", Undef, Undef),
      Response("timeout", 0, Undef, Undef, Undef),
      Response("noResponse", 0, Undef, Undef, Undef) }

\* fragments of backend failure messages: the markers the code looks for,
\* some of them in another letter case, and texts with no marker (of at
\* most 10 characters, and longer)
MsgParts ==
    {"Unknown secret", "unknown secret", "expired", "Expired", "consumed", "viewed",
     "no longer available", "rate limited", "Cripes!", "passphrase", "Passphrase",
     "password", "Wrong", "senha", "Not found", "Secret missing"}

RECURSIVE MessagesOf(_)
MessagesOf(n) ==
    IF n = 0 THEN {""}
    ELSE LET shorter == MessagesOf(n - 1) IN
         shorter \cup {IF m = "" THEN part ELSE m \o " " \o part :
                          m \in shorter, part \in MsgParts}

\* the message field of a failure body: absent, not text, empty, or
\* fragments joined
BackendMessages == {Undef, NonText} \cup MessagesOf(MaxMsgParts)

HttpStatuses == {400, 401, 403, 404, 418, 429, 500, 502, 503}

\* every answer considered when one call is classified
AllResponses ==
    {Response("http", status, m, Undef, Undef) :
        status \in HttpStatuses, m \in BackendMessages}
    \cup {Response("ok", 200, m, v, x) :
            m \in {Undef, "", "Unknown secret"}, v \in {Undef, "", Content, Embedded},
            x \in {Undef, Content}}
    \cup {Response("timeout", 0, Undef, Undef, Undef),
          Response("noResponse", 0, Undef, Undef, Undef)}

(***************************************************************************)
(* State.                                                                  *)
(*   state     App.state (AppState); requiresPassphrase is optional and    *)
(*             only ever read for its truthiness, so its undefined is      *)
(*             FALSE here                                                  *)
(*   dom       what #app-content currently shows                           *)
(*   pending   the retrieveSecret calls awaiting their response, in the    *)
(*             order they were started; each holds the handleRevealSecret  *)
(*             continuation that will run when it settles                  *)
(*   timers    the redirect timers set and not yet fired, oldest first     *)
(*   ev        history: what the last step did                             *)
(*   consumed  history: a call has revealed content since the last entry   *)
(*             into a secret route                                         *)
(***************************************************************************)
VARIABLES state, dom, pending, timers, ev, consumed

vars == <<state, dom, pending, timers, ev, consumed>>

\* { ...this.state, ...newState }
Merge(st, newState) ==
    [f \in DOMAIN st |-> IF f \in DOMAIN newState THEN newState[f] ELSE st[f]]

Dom(view, key, content, passphraseInput) ==
    [view |-> view, key |-> key, content |-> content,
     passphraseInput |-> passphraseInput]

\* App.renderRetrieveView: the passphrase input is part of the form only
\* when needsPassphraseInput
RenderRetrieveView(st) ==
    LET hasPassphraseInUrl == Truthy(st.passphrase)
        needsPassphraseInput == st.requiresPassphrase /\ ~hasPassphraseInUrl
    IN Dom("retrieve", st.retrieveKey, Undef, needsPassphraseInput)

\* App.renderCurrentView; 'view' renders SecretView, the page of the link
\* /secret/<secretKey> with the non-null assertion on secretKey
RenderCurrentView(st) ==
    CASE st.currentView = "form" -> Dom("form", Undef, Undef, FALSE)
      [] st.currentView = "view" -> Dom("link", st.secretKey, Undef, FALSE)
      [] st.currentView = "retrieve" -> RenderRetrieveView(st)
      [] st.currentView = "success" -> Dom("success", Undef, Undef, FALSE)
      [] OTHER -> Dom("form", Undef, Undef, FALSE)

\* App.showRetrievedSecret: #app-content is replaced by the revealed content
ShowRetrievedSecret(secretContent) == Dom("revealed", Undef, secretContent, FALSE)

\* the reveal button (data-action="reveal-secret", the submit button of
\* #retrieve-form) exists only in the markup of renderRetrieveView
HasRevealButton(d) == d.view = "retrieve"

\* the back-to-form button exists in the success view and in the revealed view
HasBackButton(d) == d.view \in {"success", "revealed"}

\* a retrieveSecret call awaiting its response: the attempt of
\* handleRevealSecret that made it ("probe": the first, without passphrase;
\* "passphrase": the second), its arguments, and (history) whether a route
\* has been handled since it was started
Call(attempt, key, passphrase) ==
    [attempt |-> attempt, key |-> key, passphrase |-> passphrase, stale |-> FALSE]

NoCall == Call("none", Undef, Undef)

\* a timer set by setTimeout(() => Router.goHome(), 3000), and (history)
\* whether a route has been handled since it was set
Timer(delay) == [callback |-> "goHome", delay |-> delay, stale |-> FALSE]

\* history of one step: the operation, the call it started or settled, the
\* branch taken, the error notification shown, the timers set, the answer
\* that settled the call, and whether the call or timer was stale
Event(op, call, outcome, shown, scheduled, resp, stale) ==
    [op |-> op, call |-> call, outcome |-> outcome, shown |-> shown,
     scheduled |-> scheduled, resp |-> resp, stale |-> stale]

InitialState ==
    [currentView |-> "form", secretKey |-> Undef, retrieveKey |-> Undef,
     passphrase |-> Undef, error |-> Undef, requiresPassphrase |-> FALSE]

\* new App(container), init(): the form is rendered, nothing is in flight
Init ==
    /\ state = InitialState
    /\ dom = RenderCurrentView(InitialState)
    /\ pending = <<>>
    /\ timers = <<>>
    /\ ev = Event("init", NoCall, "none", Undef, <<>>, NoResponse, FALSE)
    /\ consumed = FALSE

\* the new App.state of App.handleRoute
\* a handleRoute whose home case would leave the passphrase in the state
RouteStateKeepingPassphrase(st, route) ==
    CASE route.type = "home" ->
            Merge(st, [currentView |-> "form", retrieveKey |-> Undef,
                       secretKey |-> Undef, error |-> Undef])
      [] route.type = "secret" ->
            IF Truthy(route.secretKey)
            THEN Merge(st, [currentView |-> "retrieve",
                            retrieveKey |-> route.secretKey,
                            passphrase |-> route.passphrase,
                            secretKey |-> Undef, error |-> Undef,
                            requiresPassphrase |-> FALSE])
            ELSE st
      [] OTHER -> Merge(st, [currentView |-> "form"])

RouteState(st, route) ==
    CASE route.type = "home" ->
            Merge(st, [currentView |-> "form", retrieveKey |-> Undef,
                       passphrase |-> Undef, secretKey |-> Undef, error |-> Undef])
      [] route.type = "secret" ->
            IF Truthy(route.secretKey)
            THEN Merge(st, [currentView |-> "retrieve",
                            retrieveKey |-> route.secretKey,
                            passphrase |-> route.passphrase,
                            secretKey |-> Undef, error |-> Undef,
                            requiresPassphrase |-> FALSE])
            ELSE st
      [] OTHER -> Merge(st, [currentView |-> "form"])

MarkStale(s) == [i \in 1..Len(s) |-> [s[i] EXCEPT !.stale = TRUE]]

\* the popstate listener: Router.parseRoute on the address the browser is
\* now at, then App.handleRoute (setState renders the new view).  Every call
\* still waiting was started under an earlier route.
HandleRoute(url, op, stale) ==
    \E route \in {ParseRoute(url)} :
    /\ state' = RouteState(state, route)
    /\ dom' = RenderCurrentView(state')
    /\ pending' = MarkStale(pending)
    /\ consumed' = IF route.type = "secret" THEN FALSE ELSE consumed
    /\ ev' = Event(op, NoCall, "none",
                   IF route.type = "notfound" THEN MsgPageNotFound ELSE Undef,
                   <<>>, NoResponse, stale)

\* the browser goes to an address (initial load, link, back / forward)
Navigate ==
    \E url \in Urls :
        /\ HandleRoute(url, "route", FALSE)
        /\ timers' = MarkStale(timers)

\* App.handleBackToForm: Router.goHome()
HandleBackToForm ==
    /\ HasBackButton(dom)
    /\ HandleRoute(HomeUrl, "back", FALSE)
    /\ timers' = MarkStale(timers)

\* the oldest redirect timer fires (all have the same delay): Router.goHome()
\* pushes '/' and dispatches popstate
TimerFires ==
    /\ timers # <<>>
    /\ HandleRoute(HomeUrl, "timer", Head(timers).stale)
    /\ timers' = MarkStale(Tail(timers))

\* a handleRevealSecret that would test the passphrase input without
\* trimming it
RevealBranchWithoutTrim(st, inputValue) ==
    IF ~Truthy(st.retrieveKey) THEN [branch |-> "noKey", passphrase |-> Undef]
    ELSE IF ~st.requiresPassphrase /\ ~Truthy(st.passphrase)
        THEN [branch |-> "probe", passphrase |-> Undef]
    ELSE LET passphrase ==
                 IF st.requiresPassphrase /\ ~Truthy(st.passphrase)
                 THEN OrElse(inputValue, "")
                 ELSE st.passphrase
         IN IF st.requiresPassphrase /\ ~Truthy(st.passphrase) /\ passphrase = ""
            THEN [branch |-> "blank", passphrase |-> Undef]
            ELSE [branch |-> "passphrase", passphrase |-> passphrase]

\* a handleRevealSecret whose first attempt would not look at the passphrase
\* of the route
RevealBranchProbeFirst(st, inputValue) ==
    IF ~Truthy(st.retrieveKey) THEN [branch |-> "noKey", passphrase |-> Undef]
    ELSE IF ~st.requiresPassphrase
        THEN [branch |-> "probe", passphrase |-> Undef]
    ELSE LET passphrase ==
                 IF ~Truthy(st.passphrase) THEN OrElse(inputValue, "")
                 ELSE st.passphrase
         IN IF ~Truthy(st.passphrase) /\ Trim(passphrase) = ""
            THEN [branch |-> "blank", passphrase |-> Undef]
            ELSE [branch |-> "passphrase", passphrase |-> passphrase]

\* handleRevealSecret up to its first network call: which branch it takes
\* and, for the second attempt, the passphrase it sends.  inputValue is the
\* value of #retrieve-passphrase ('' when the element does not exist).
RevealBranch(st, inputValue) ==
    IF ~Truthy(st.retrieveKey) THEN [branch |-> "noKey", passphrase |-> Undef]
    ELSE IF ~st.requiresPassphrase /\ ~Truthy(st.passphrase)
        THEN [branch |-> "probe", passphrase |-> Undef]
    ELSE LET passphrase ==
                 IF st.requiresPassphrase /\ ~Truthy(st.passphrase)
                 THEN OrElse(inputValue, "")
                 ELSE st.passphrase
             finalPassphrase ==
                 IF st.requiresPassphrase THEN passphrase
                 ELSE OrElse(st.passphrase, passphrase)
         IN IF st.requiresPassphrase /\ ~Truthy(st.passphrase) /\ Trim(passphrase) = ""
            THEN [branch |-> "blank", passphrase |-> Undef]
            ELSE [branch |-> "passphrase", passphrase |-> finalPassphrase]

\* a click on the reveal button or a submit of #retrieve-form:
\* App.handleRevealSecret up to the await of retrieveSecret (the import of
\* OTSService, a module already loaded with SecretForm, yields to no event)
HandleRevealSecret ==
    \E typed \in TypedPassphrases :
        \E b \in {RevealBranch(state, IF dom.passphraseInput THEN typed ELSE "")} :
        LET call == Call(b.branch, state.retrieveKey, b.passphrase) IN
        /\ HasRevealButton(dom)
        /\ Len(pending) < MaxPending
        /\ IF b.branch \in {"probe", "passphrase"}
           THEN /\ pending' = Append(pending, call)
                /\ ev' = Event("reveal", call, b.branch, Undef, <<>>, NoResponse, FALSE)
           ELSE /\ pending' = pending
                /\ ev' = Event("reveal", NoCall, b.branch,
                               IF b.branch = "noKey" THEN MsgKeyNotFound
                                                     ELSE MsgTypePassphrase,
                               <<>>, NoResponse, FALSE)
        /\ UNCHANGED <<state, dom, timers, consumed>>

\* a success continuation that would leave retrieveKey in the state
RevealedStateKeepingKey(st) ==
    Merge(st, [currentView |-> "view", secretKey |-> st.retrieveKey])

\* the new App.state when retrieveSecret resolved (either attempt)
RevealedState(st) ==
    Merge(st, [currentView |-> "view", secretKey |-> st.retrieveKey,
               retrieveKey |-> Undef])

\* the new App.state when the first attempt's catch asks for the passphrase
PromptState(st) == Merge(st, [requiresPassphrase |-> TRUE])

\* a continuation that would leave the settled call in flight (issue it
\* again)
RetryAt(s, i) == s

RemoveAt(s, i) == SubSeq(s, 1, i - 1) \o SubSeq(s, i + 1, Len(s))

Attempts == {"probe", "passphrase"}

\* a settlement that would depend on the passphrase itself, not only on
\* whether one was supplied: the passphrase of the URL is treated as none
SettlementByPassphraseValue(resp, attempt, passphrase) ==
    LET result == RetrieveSecret(resp, passphrase) IN
    [result |-> result,
     outcome |-> IF result.ok THEN "revealed"
                 ELSE CatchBranch(IF passphrase = "urlpw" THEN "probe" ELSE attempt,
                                  result.error)]

\* how one call settles: the result of OTSService.retrieveSecret for the
\* answer resp and, if it rejects, the branch of handleRevealSecret's catch
Settlement(resp, attempt, passphrase) ==
    LET result == RetrieveSecret(resp, passphrase) IN
    [result |-> result,
     outcome |-> IF result.ok THEN "revealed" ELSE CatchBranch(attempt, result.error)]

\* the passphrases a call can carry
CallPassphrases == {Undef} \cup UrlPassphrases \cup TypedPassphrases

\* Settlement, tabulated for the answers of the flow
FlowSettlement ==
    [resp \in FlowResponses, attempt \in Attempts, passphrase \in CallPassphrases |->
        Settlement(resp, attempt, passphrase)]

\* the i-th waiting retrieveSecret call gets the answer resp and settles as
\* s: the continuation of handleRevealSecret after the await (or its catch
\* block) runs on the state as it is now
SettleCall(i, resp, s) ==
    LET call == pending[i] IN
    /\ s.outcome = "terminal" => Len(timers) < MaxTimers
    /\ pending' = RemoveAt(pending, i)
    /\ CASE s.outcome = "revealed" ->
              /\ state' = RevealedState(state)
              /\ dom' = ShowRetrievedSecret(s.result.secret)
              /\ timers' = timers
              /\ consumed' = TRUE
              /\ ev' = Event("settle", call, s.outcome, Undef, <<>>, resp, call.stale)
         [] s.outcome = "prompt" ->
              /\ state' = PromptState(state)
              /\ dom' = RenderCurrentView(state')
              /\ timers' = timers
              /\ consumed' = consumed
              /\ ev' = Event("settle", call, s.outcome, Undef, <<>>, resp, call.stale)
         [] OTHER ->
              /\ state' = state
              /\ dom' = dom
              /\ timers' = Append(timers, Timer(RedirectDelayMs))
              /\ consumed' = consumed
              /\ ev' = Event("settle", call, s.outcome, s.result.error,
                             <<Timer(RedirectDelayMs)>>, resp, call.stale)

\* a waiting call is answered
Settle ==
    \E i \in 1..Len(pending) : \E resp \in FlowResponses :
        SettleCall(i, resp, FlowSettlement[resp, pending[i].attempt, pending[i].passphrase])

Next == Navigate \/ HandleBackToForm \/ HandleRevealSecret \/ Settle \/ TimerFires

Spec == Init /\ [][Next]_vars

(***************************************************************************)
(* One retrieval flow on its own: the App has just handled the route of a  *)
(* secret link (with or without a passphrase in it), reveal events come    *)
(* one at a time, and each call may get any answer.                        *)
(***************************************************************************)
InitClassify ==
    \E q \in {Undef, "urlpw"} :
        /\ state = RouteState(InitialState, ParseRoute(Url(SecretPrefix \o Key1, q)))
        /\ dom = RenderCurrentView(state)
        /\ pending = <<>>
        /\ timers = <<>>
        /\ ev = Event("route", NoCall, "none", Undef, <<>>, NoResponse, FALSE)
        /\ consumed = FALSE

RevealOnce ==
    /\ pending = <<>>
    /\ timers = <<>>
    /\ HandleRevealSecret

SettleAny ==
    /\ pending # <<>>
    /\ \E resp \in AllResponses :
         \E s \in {Settlement(resp, pending[1].attempt, pending[1].passphrase)} :
            SettleCall(1, resp, s)

NextClassify == RevealOnce \/ SettleAny

SpecClassify == InitClassify /\ [][NextClassify]_vars

(***************************************************************************)
(* The create form: ValidationUtils, SecretForm.handleSubmit,              *)
(* OTSService.createSecret, App.handleSecretCreated.                       *)
(***************************************************************************)

\* a JS number: NaN, an integer, or an integer plus one half (a number that
\* is not an integer)
Num(n) == [nan |-> FALSE, int |-> n, half |-> FALSE]
NumAndHalf(n) == [nan |-> FALSE, int |-> n, half |-> TRUE]
NaN == [nan |-> TRUE, int |-> 0, half |-> FALSE]

NumberIsInteger(x) == ~x.nan /\ ~x.half

\* x <= n, x < n and x > n for an integer n (every comparison with NaN is
\* false)
NumLeq(x, n) == ~x.nan /\ IF x.half THEN x.int < n ELSE x.int <= n
NumLess(x, n) == ~x.nan /\ x.int < n
NumGreater(x, n) == ~x.nan /\ IF x.half THEN x.int >= n ELSE x.int > n

Digits == <<"0", "1", "2", "3", "4", "5", "6", "7", "8", "9">>

IsDigit(c) == \E d \in 1..Len(Digits) : Digits[d] = c

DigitValue(c) == (CHOOSE d \in 1..Len(Digits) : Digits[d] = c) - 1

\* the value of the digits at the start of s
RECURSIVE LeadingDigits(_, _)
LeadingDigits(s, acc) ==
    IF s = "" \/ ~IsDigit(SubSeq(s, 1, 1)) THEN acc
    ELSE LeadingDigits(SubSeq(s, 2, Len(s)), acc * 10 + DigitValue(SubSeq(s, 1, 1)))

\* parseInt(s), radix 10: leading white space, an optional sign, then the
\* digits up to the first other character; NaN when there is no digit
ParseInt(s) ==
    LET t == TrimStart(s)
        signed == t # "" /\ SubSeq(t, 1, 1) \in {"-", "+"}
        body == IF signed THEN SubSeq(t, 2, Len(t)) ELSE t
    IN IF body = "" \/ ~IsDigit(SubSeq(body, 1, 1)) THEN NaN
       ELSE IF signed /\ SubSeq(t, 1, 1) = "-" THEN Num(0 - LeadingDigits(body, 0))
       ELSE Num(LeadingDigits(body, 0))

\* a ValidationResult
ValidationResult(errors) == [isValid |-> errors = <<>>, errors |-> errors]

\* the error, or nothing, of one test
ErrorIf(cond, message) == IF cond THEN <<message>> ELSE <<>>

\* ValidationUtils.validateTTL
ValidateTTL(ttl) ==
    ValidationResult(
        ErrorIf(~NumberIsInteger(ttl) \/ NumLeq(ttl, 0),
                "The expiration time must be a positive number")
        \o ErrorIf(NumLess(ttl, 300), "The minimum expiration time is 5 minutes")
        \o ErrorIf(NumGreater(ttl, 2592000), "The maximum expiration time is 30 days"))

UpperCase == <<"A", "B", "C", "D", "E", "F", "G", "H", "I", "J", "K", "L", "M",
               "N", "O", "P", "Q", "R", "S", "T", "U", "V", "W", "X", "Y", "Z">>
LowerCase == <<"a", "b", "c", "d", "e", "f", "g", "h", "i", "j", "k", "l", "m",
               "n", "o", "p", "q", "r", "s", "t", "u", "v", "w", "x", "y", "z">>

LowerChar(c) ==
    IF \E k \in 1..Len(UpperCase) : UpperCase[k] = c
    THEN LowerCase[CHOOSE k \in 1..Len(UpperCase) : UpperCase[k] = c]
    ELSE c

\* String.prototype.toLowerCase (ASCII letters)
RECURSIVE ToLowerCase(_)
ToLowerCase(s) ==
    IF s = "" THEN ""
    ELSE LowerChar(SubSeq(s, 1, 1)) \o ToLowerCase(SubSeq(s, 2, Len(s)))

\* the word w starts at position i of s
HasAt(s, i, w) == i + Len(w) - 1 <= Len(s) /\ SubSeq(s, i, i + Len(w) - 1) = w

IsSpaceChar(c) == c \in WhiteSpace

\* \w
IsWordChar(c) ==
    \/ IsDigit(c) \/ c = "_"
    \/ \E k \in 1..Len(LowerCase) : LowerCase[k] = c \/ UpperCase[k] = c

\* the characters of s from position a to position b are all white space
AllSpace(s, a, b) == \A k \in a..b : IsSpaceChar(SubSeq(s, k, k))

\* the characters of s from position a to position b are all word characters
AllWord(s, a, b) == \A k \in a..b : IsWordChar(SubSeq(s, k, k))

\* /w1\s+w2/i
MatchesSpaced(s, w1, w2) ==
    LET l == ToLowerCase(s) IN
    \E i \in 1..Len(l) :
        /\ HasAt(l, i, w1)
        /\ \E j \in (i + Len(w1) + 1)..Len(l) :
              /\ HasAt(l, j, w2)
              /\ AllSpace(l, i + Len(w1), j - 1)

\* /update\s+\w+\s+set/i
MatchesUpdateSet(s) ==
    LET l == ToLowerCase(s) IN
    \E i \in 1..Len(l) :
        /\ HasAt(l, i, "update")
        /\ \E a \in (i + 7)..Len(l) : \E b \in (a + 1)..Len(l) : \E j \in (b + 1)..Len(l) :
              /\ HasAt(l, j, "set")
              /\ AllSpace(l, i + 6, a - 1)
              /\ AllWord(l, a, b - 1)
              /\ AllSpace(l, b, j - 1)

\* /<script[\s\S]*?>[\s\S]*?<\/script>/i
MatchesScript(s) ==
    LET l == ToLowerCase(s) IN
    \E i \in 1..Len(l) :
        /\ HasAt(l, i, "<script")
        /\ \E j \in (i + 7)..Len(l) :
              /\ SubSeq(l, j, j) = ">"
              /\ \E k \in (j + 1)..Len(l) : HasAt(l, k, "</script>")

\* ValidationUtils.validateSecretSecurity
ValidateSecretSecurity(secret) ==
    ValidationResult(
        ErrorIf(MatchesScript(secret), "The secret content cannot contain scripts")
        \o ErrorIf(\/ MatchesSpaced(secret, "drop", "table")
                   \/ MatchesSpaced(secret, "delete", "from")
                   \/ MatchesSpaced(secret, "insert", "into")
                   \/ MatchesUpdateSet(secret)
                   \/ MatchesSpaced(secret, "union", "select"),
                   "The secret content contains forbidden patterns"))

WeakPasswords ==
    {"1234", "12345", "123456", "password", "senha", "admin", "teste", "test",
     "qwerty", "abc123"}

\* ValidationUtils.validatePassphrase
ValidatePassphrase(passphrase) ==
    ValidationResult(
        ErrorIf(Len(passphrase) < 4, "The passphrase must have at least 4 characters")
        \o ErrorIf(Len(passphrase) > 128, "The passphrase cannot exceed 128 characters")
        \o ErrorIf(ToLowerCase(passphrase) \in WeakPasswords, "Use a passphrase more secure"))

\* ValidationUtils.validateSecret
ValidateSecret(secret, passphrase) ==
    ValidationResult(
        ErrorIf(secret = "" \/ Len(Trim(secret)) = 0, "The secret content is required")
        \o ErrorIf(secret # "" /\ Len(secret) > 5000,
                   "The secret content cannot exceed 5000 characters")
        \o ErrorIf(secret # "" /\ Len(Trim(secret)) < 3,
                   "The secret content must have at least 3 characters")
        \o (IF passphrase # Undef /\ passphrase # ""
            THEN ValidatePassphrase(passphrase).errors ELSE <<>>)
        \o ValidateSecretSecurity(secret).errors)

\* Array.prototype.join(', ')
RECURSIVE Join(_)
Join(errors) ==
    IF errors = <<>> THEN ""
    ELSE IF Len(errors) = 1 THEN errors[1]
    ELSE errors[1] \o ", " \o Join(Tail(errors))

MsgInvalidResponse == "Resposta inválida do servidor"
MsgCreated == "Segredo criado com sucesso!"

\* the answer to the POST of createSecret
CreateAnswer(kind, status, message, secretKey) ==
    [kind |-> kind, status |-> status, message |-> message, secret_key |-> secretKey]

\* a createSecret that would resolve with any 2xx body, with or without a
\* secret_key
CreateSecretUnchecked(resp) ==
    IF resp.kind = "ok" THEN Resolved(resp.secret_key)
    ELSE Rejected(HandleError(resp, FALSE))

\* OTSService.createSecret, given the answer to its POST: the response
\* interceptor has passed a failure through handleError, which the catch
\* block's handleError returns as it is
CreateSecret(resp) ==
    IF resp.kind = "ok" THEN
        IF ~Truthy(resp.secret_key) THEN Rejected(MsgInvalidResponse)
        ELSE Resolved(resp.secret_key)
    ELSE Rejected(HandleError(resp, FALSE))

\* the form of SecretForm.render in #app-content: the values of
\* #secret-content, #ttl and #passphrase, and whether the submit button is
\* disabled (setLoading)
FormDom(secret, ttl, passphrase, loading) ==
    [view |-> "form", key |-> Undef, content |-> Undef, passphraseInput |-> FALSE,
     secret |-> secret, ttl |-> ttl, passphrase |-> passphrase, loading |-> loading]

\* the option of #ttl selected when the form is rendered
DefaultTtlValue == "3600"

\* what the fields of the form may hold: values of the options of #ttl and
\* values the select does not offer
FormSecrets == {"", "ab", "my secret", "DROP  TABLE x", "<script>a</script>"}
TtlValues == {"300", DefaultTtlValue, "604800", "", "60", "0", "2592001", "abc"}
FormPassphrases == {"", "abc", "senha", "hunter2"}

\* answers of the backend to a create request
CreateAnswers ==
    { CreateAnswer("ok", 200, Undef, Key1),
      CreateAnswer("ok", 200, Undef, Undef),
      CreateAnswer("http", 400, "ttl out of range", Undef),
      CreateAnswer("http", 500, Undef, Undef),
      CreateAnswer("noResponse", 0, Undef, Undef) }

\* the CreateSecretRequest of a pending createSecret call, with the
\* originalPassphrase the handler keeps for its catch block
CreateRequest(secret, ttl, passphrase, originalPassphrase) ==
    [secret |-> secret, ttl |-> ttl, passphrase |-> passphrase,
     originalPassphrase |-> originalPassphrase]

\* App.handleSecretCreated
CreatedState(st, secretKey) ==
    Merge(st, [currentView |-> "view", secretKey |-> secretKey, error |-> Undef])

InitCreate ==
    /\ state = InitialState
    /\ dom = FormDom("", DefaultTtlValue, "", FALSE)
    /\ pending = <<>>
    /\ timers = <<>>
    /\ ev = Event("init", NoCall, "none", Undef, <<>>, NoResponse, FALSE)
    /\ consumed = FALSE

\* the user edits the fields of the form
FillForm ==
    /\ dom.view = "form" /\ ~dom.loading
    /\ \E secret \in FormSecrets, ttl \in TtlValues, passphrase \in FormPassphrases :
          dom' = FormDom(secret, ttl, passphrase, FALSE)
    /\ ev' = Event("fill", NoCall, "none", Undef, <<>>, NoResponse, FALSE)
    /\ UNCHANGED <<state, pending, timers, consumed>>

\* SecretForm.handleSubmit up to the await of createSecret
HandleSubmit ==
    LET secret == OrElse(dom.secret, "")
        ttl == ParseInt(OrElse(dom.ttl, DefaultTtlValue))
        passphrase == OrElse(dom.passphrase, "")
        validationResult == ValidateSecret(secret, passphrase)
        request == CreateRequest(secret, ttl,
                                 IF Truthy(passphrase) THEN passphrase ELSE Undef,
                                 OrElse(dom.passphrase, ""))
    IN
    /\ dom.view = "form" /\ ~dom.loading
    /\ IF ~validationResult.isValid
       THEN /\ ev' = Event("submit", NoCall, "invalid", Join(validationResult.errors),
                           <<>>, NoResponse, FALSE)
            /\ UNCHANGED <<dom, pending>>
       ELSE /\ dom' = [dom EXCEPT !.loading = TRUE, !.passphrase = ""]
            /\ pending' = Append(pending, request)
            /\ ev' = Event("submit", request, "create", Undef, <<>>, NoResponse, FALSE)
    /\ UNCHANGED <<state, timers, consumed>>

\* the createSecret call is answered: the rest of handleSubmit
CreateSettles ==
    /\ pending # <<>>
    /\ \E resp \in CreateAnswers :
        LET request == Head(pending)
            result == CreateSecret(resp)
        IN IF result.ok
           THEN \* onSecretCreated; clearForm and setLoading find no form
                /\ state' = CreatedState(state, result.secret)
                /\ dom' = RenderCurrentView(state')
                /\ ev' = Event("created", request, "created", MsgCreated, <<>>, resp, FALSE)
           ELSE /\ state' = state
                /\ dom' = [dom EXCEPT
                             !.passphrase = IF Truthy(request.originalPassphrase)
                                            THEN request.originalPassphrase ELSE @,
                             !.loading = FALSE]
                /\ ev' = Event("createFailed", request, "failed", result.error,
                               <<>>, resp, FALSE)
    /\ pending' = Tail(pending)
    /\ UNCHANGED <<timers, consumed>>

NextCreate == FillForm \/ HandleSubmit \/ CreateSettles

SpecCreate == InitCreate /\ [][NextCreate]_vars

(***************************************************************************)
(* Claims.                                                                 *)
(***************************************************************************)
\* the last step settled a call
Settled == ev.op = "settle"

\* the last step was a reveal event that started a network call
StartedCall == ev.op = "reveal" /\ ev.call # NoCall

\* C1: at most one retrieveSecret call of the App is in flight at any time:
\* a reveal event that arrives while an earlier call has not settled starts
\* no second call.
C1_OneCallInFlight == Len(pending) <= 1

\* C2: once a call has revealed content, and until a secret route is entered
\* again, no retrieveSecret call is started: retrieveKey is undefined, so
\* handleRevealSecret, whatever the passphrase input holds, takes the
\* 'Chave do segredo não encontrada' branch, which makes no network call.
C2_NoCallAfterRevealed ==
    consumed =>
        /\ ~StartedCall
        /\ ev.op = "reveal" => ev.shown = MsgKeyNotFound
        /\ \A typed \in TypedPassphrases :
              RevealBranch(state, typed).branch = "noKey"

\* C2, witness: content has been revealed and afterwards a call of the same
\* flow that was still waiting has failed into the passphrase branch,
\* setting requiresPassphrase
C2_Witness ==
    /\ consumed
    /\ Settled /\ ev.outcome = "prompt"
    /\ state.requiresPassphrase

\* C3: the result of a call that was pending when a route was handled is
\* discarded when it arrives: it changes neither App.state nor the view, and
\* shows no error and sets no timer.
C3_StaleResultDiscarded ==
    [][(ev'.op = "settle" /\ ev'.stale) =>
          /\ UNCHANGED <<state, dom, timers>>
          /\ ev'.shown = Undef]_vars

\* a response that retrieveSecret is to treat as a failure: not a 2xx answer,
\* or a 2xx body with a message, or a 2xx body with neither value nor secret
IsFailureResponse(resp) ==
    \/ resp.kind # "ok"
    \/ Truthy(resp.message)
    \/ ~Truthy(resp.value) /\ ~Truthy(resp.secret)

\* C4: secret content is on the page only through showRetrievedSecret after
\* a call that resolved: it is the value (or else the secret) field of an
\* answer that is not a failure, and an answer that is a failure never
\* reveals; no field of a failure body is ever rendered as content.
C4_ContentOnlyWhenRevealed ==
    /\ dom.content # Undef => dom.view = "revealed" /\ dom.content = Content
    /\ (Settled /\ IsFailureResponse(ev.resp)) => ev.outcome # "revealed"
    /\ (Settled /\ ev.outcome = "revealed") =>
          /\ ~IsFailureResponse(ev.resp)
          /\ dom = ShowRetrievedSecret(OrElse(ev.resp.value, ev.resp.secret))

\* C4, witness: a 2xx answer carrying both a message and a value has settled
\* a call
C4_Witness ==
    /\ Settled
    /\ ev.resp.kind = "ok" /\ Truthy(ev.resp.message) /\ ev.resp.value = Embedded

\* C5: when a call resolves with content, on either attempt, the flow is in
\* the revealed state after that one step: currentView is 'view', secretKey
\* is the key that was retrieved, retrieveKey is undefined, the content shown
\* is the content returned, and no redirect was scheduled.
C5_HappyPath ==
    (Settled /\ ~IsFailureResponse(ev.resp)) =>
        /\ ev.outcome = "revealed"
        /\ state.currentView = "view"
        /\ state.secretKey = ev.call.key
        /\ state.retrieveKey = Undef
        /\ dom = ShowRetrievedSecret(OrElse(ev.resp.value, ev.resp.secret))
        /\ ev.scheduled = <<>>

\* the markers of expiry or consumption in a backend message
ExpiryMarkers == {"expired", "consumed", "viewed", "no longer available"}

HasExpiryMarker(m) == \E k \in ExpiryMarkers : MsgIncludes(m, k)

\* an HTTP failure answer with the given status
IsHttp(resp, status) == resp.kind = "http" /\ resp.status = status

\* the redirect every terminal outcome is to schedule
GoHomeIn3000 == [callback |-> "goHome", delay |-> 3000, stale |-> FALSE]

\* C6: a 404 failure whose message has an expiry or consumption marker,
\* whatever else the message contains, ends the attempt with 'Segredo
\* expirado ou já visualizado', with and without a passphrase; it never
\* leads to the passphrase prompt.
C6_ExpiryMarkerIsTerminal ==
    (Settled /\ IsHttp(ev.resp, 404) /\ HasExpiryMarker(ev.resp.message)) =>
        /\ ev.outcome = "terminal"
        /\ ev.shown = MsgExpired

C8_BadRequestPassphrase ==
    (/\ Settled /\ IsHttp(ev.resp, 400)
     /\ \/ MsgIncludes(ev.resp.message, "passphrase")
        \/ MsgIncludes(ev.resp.message, "password")) =>
        IF ~Truthy(ev.call.passphrase)
        THEN /\ ev.outcome = "prompt"
             /\ state.requiresPassphrase
             /\ ev.scheduled = <<>> /\ timers = <<>>
        ELSE ev.outcome = "terminal"

\* C9: a call that settles in a terminal outcome (every failure of a
\* passphrase attempt is one; so is every transport failure and every 429)
\* shows an error message and adds exactly one timer, Router.goHome after
\* 3000 ms; when a redirect timer fires the App is on the form view with
\* retrieveKey, passphrase and secretKey undefined.
C9_TerminalRedirects ==
    /\ [][(ev'.op = "settle" /\ ev'.outcome = "terminal") =>
              /\ Truthy(ev'.shown)
              /\ timers' = Append(timers, GoHomeIn3000)
              /\ ev'.scheduled = <<GoHomeIn3000>>]_vars
    /\ []((Settled /\ ev.outcome # "revealed"
             /\ \/ ev.call.attempt = "passphrase"
                \/ ev.resp.kind \in {"timeout", "noResponse"}
                \/ IsHttp(ev.resp, 429))
            => ev.outcome = "terminal")
    /\ [](ev.op = "timer" =>
            /\ state.currentView = "form" /\ dom.view = "form"
            /\ state.retrieveKey = Undef
            /\ state.passphrase = Undef
            /\ state.secretKey = Undef)

\* C9, witness: the redirect timer of a flow that no route change has
\* interrupted has fired
C9_Witness ==
    /\ ev.op = "timer" /\ ~ev.stale
    /\ pending = <<>> /\ timers = <<>>

\* C10: when a call settles in the passphrase prompt, no redirect is
\* scheduled and no call is started; while requiresPassphrase is set, a
\* reveal event starts a call only with a non-blank passphrase, and one with
\* an empty or whitespace-only input shows 'Por favor, digite a senha do
\* segredo', starts no call and changes nothing.
C10_NoCallUntilPassphrase ==
    /\ [][/\ (ev'.op = "settle" /\ ev'.outcome = "prompt") =>
                /\ state'.requiresPassphrase
                /\ timers' = timers /\ ev'.scheduled = <<>>
                /\ Len(pending') < Len(pending)
          /\ (ev'.op = "reveal" /\ state.requiresPassphrase) =>
                IF ev'.call # NoCall
                THEN Truthy(ev'.call.passphrase) /\ Trim(ev'.call.passphrase) # ""
                ELSE /\ ev'.shown = MsgTypePassphrase
                     /\ UNCHANGED <<state, dom, pending, timers>>]_vars
    /\ []((HasRevealButton(dom) /\ dom.passphraseInput) =>
            \A typed \in TypedPassphrases :
                Trim(typed) = "" => RevealBranch(state, typed).branch = "blank")

\* C10, witness: at the prompt, a reveal event with a blank input was
\* answered with the request to type the passphrase
C10_Witness ==
    /\ ev.op = "reveal" /\ ev.outcome = "blank"
    /\ ev.shown = MsgTypePassphrase
    /\ state.requiresPassphrase /\ dom.passphraseInput

\* C11: while the state holds the passphrase of the route that opened the
\* flow (query parameter 'p', not empty), a reveal event starts exactly one
\* call, retrieveSecret(retrieveKey, that passphrase); no call without a
\* passphrase is started, whatever the passphrase input holds.
C11_UrlPassphraseSkipsProbe ==
    /\ [][(ev'.op = "reveal" /\ Truthy(state.passphrase)) =>
              /\ ev'.call = Call("passphrase", state.retrieveKey, state.passphrase)
              /\ pending' = Append(pending, ev'.call)]_vars
    /\ []((Truthy(state.passphrase) /\ Truthy(state.retrieveKey)) =>
            \A typed \in TypedPassphrases :
                RevealBranch(state, typed) =
                    [branch |-> "passphrase", passphrase |-> state.passphrase])

\* C11, witness: the first reveal event of a flow opened with ?p=urlpw has
\* started its call
C11_Witness ==
    /\ ev.op = "reveal"
    /\ state.passphrase = "urlpw" /\ ~state.requiresPassphrase
    /\ pending = <<Call("passphrase", Key1, "urlpw")>>

\* C12: only a reveal event starts a call, and it starts at most one: a
\* step that settles a call removes that call and starts none, whatever the
\* outcome, and a route change, the back button or a redirect timer leaves
\* the calls in flight as they are.
C12_NoAutomaticRetry ==
    [][/\ ev'.op = "reveal" =>
            \/ ev'.call = NoCall /\ pending' = pending
            \/ ev'.call # NoCall /\ pending' = Append(pending, ev'.call)
       /\ ev'.op = "settle" =>
            \E i \in 1..Len(pending) :
                /\ pending[i] = ev'.call
                /\ pending' = SubSeq(pending, 1, i - 1) \o SubSeq(pending, i + 1, Len(pending))
       /\ ev'.op \in {"route", "back", "timer"} =>
            /\ Len(pending') = Len(pending)
            /\ \A i \in 1..Len(pending) :
                  pending'[i] = [pending[i] EXCEPT !.stale = TRUE]]_vars

\* C12, witness: after the prompt the user has submitted a passphrase, which
\* started the second call of the flow, the only one in flight
C12_Witness ==
    /\ ev.op = "reveal" /\ ev.call.attempt = "passphrase"
    /\ state.requiresPassphrase /\ ~Truthy(state.passphrase)
    /\ pending = <<ev.call>>

\* C13: a call made with a passphrase (typed, or taken from the URL) that
\* fails, whatever the answer, is terminal: the error is shown, the 3000 ms
\* redirect is scheduled, and neither App.state (requiresPassphrase,
\* retrieveKey) nor the view changes in that step.
C13_PassphraseFailureIsTerminal ==
    [][(ev'.op = "settle" /\ Truthy(ev'.call.passphrase) /\ ev'.outcome # "revealed") =>
          /\ ev'.outcome = "terminal"
          /\ Truthy(ev'.shown)
          /\ timers' = Append(timers, GoHomeIn3000)
          /\ UNCHANGED <<state, dom>>]_vars

\* C13, witness: a call with the passphrase of the URL has failed with an
\* error text that, on a first attempt, would have opened the prompt
C13_Witness ==
    /\ Settled /\ ev.outcome = "terminal"
    /\ ev.call.passphrase = "urlpw" /\ ~state.requiresPassphrase
    /\ IsPassphraseMessage(ev.shown)
    /\ state.retrieveKey = Key1

\* Router.isValidSecretKey: /^[a-zA-Z0-9]{20,32}$/
IsValidSecretKey(key) == IsAlnumWord(key) /\ Len(key) >= 20 /\ Len(key) <= 32

\* C14: no retrieveSecret call is in flight for a key that is not 20 to 32
\* alphanumeric characters: such a key is rejected before any call.
C14_OnlyValidKeysAreRequested ==
    \A i \in 1..Len(pending) : IsValidSecretKey(pending[i].key)

C16_PassphraseNotRetained ==
    (Settled /\ Truthy(ev.call.passphrase)) => state.passphrase = Undef

\* C17: a call that fails without an HTTP response (timeout, or no response
\* received) is terminal on the first and on the second attempt: the
\* transport error text is shown, the redirect is scheduled, and neither the
\* state nor the view changes (no password prompt is opened).
C17_TransportFailureIsTerminal ==
    [][(ev'.op = "settle" /\ ev'.resp.kind \in {"timeout", "noResponse"}) =>
          /\ ev'.outcome = "terminal"
          /\ ev'.shown = IF ev'.resp.kind = "timeout" THEN MsgTimeout ELSE MsgNoConnection
          /\ timers' = Append(timers, GoHomeIn3000)
          /\ UNCHANGED <<state, dom>>]_vars

\* C17, witness: the first attempt has timed out
C17_Witness ==
    /\ Settled /\ ev.resp.kind = "timeout"
    /\ ev.call.attempt = "probe"
    /\ ~state.requiresPassphrase /\ timers = <<GoHomeIn3000>>

\* C18: every failure of a call is classified without an exception in the
\* service (handleError returns, it does not throw) and ends in exactly one
\* of two transitions: the password prompt (nothing shown, nothing
\* scheduled) or a terminal error (error shown, redirect scheduled).
C18_ClassificationIsTotal ==
    (Settled /\ ev.outcome # "revealed") =>
        /\ ~UnknownSecretTestThrows(ev.resp)
        /\ ~HandleErrorThrows(ev.resp)
        /\ \/ /\ ev.outcome = "prompt"
              /\ state.requiresPassphrase /\ ev.shown = Undef /\ ev.scheduled = <<>>
           \/ /\ ev.outcome = "terminal"
              /\ Truthy(ev.shown) /\ ev.scheduled = <<GoHomeIn3000>>

\* the outcome of a failure as a function of the answer and of the
\* passphrase-supplied flag alone: the error message and the transition
Classify(resp, supplied) ==
    LET error == RetrieveSecret(resp, IF supplied THEN "supplied" ELSE Undef).error IN
    [message |-> error,
     transition |-> CatchBranch(IF supplied THEN "passphrase" ELSE "probe", error)]

\* C19: the outcome of a failed call is determined by the answer (status,
\* message) and by whether a passphrase was supplied: whatever happened
\* before and whatever the state is when the answer arrives, the transition
\* is the same, and so is the error message shown.
C19_ClassificationIsDeterministic ==
    (Settled /\ ev.outcome # "revealed") =>
        LET c == Classify(ev.resp, Truthy(ev.call.passphrase)) IN
        /\ ev.outcome = c.transition
        /\ ev.outcome = "terminal" => ev.shown = c.message
        /\ ev.outcome = "prompt" => state.requiresPassphrase /\ ev.shown = Undef

\* C19, witness: a call started under an earlier route has failed after the
\* App went back to the form
C19_Witness ==
    /\ Settled /\ ev.stale /\ ev.outcome = "terminal"
    /\ state.currentView = "form"
    /\ Truthy(ev.call.passphrase)

\* C20: a 2xx answer whose body has a message makes retrieveSecret fail
\* instead of returning content, and the message of the error it raises is
\* the text the backend supplied.
C20_EmbeddedFailureKeepsBackendText ==
    (Settled /\ ev.resp.kind = "ok" /\ Truthy(ev.resp.message)) =>
        /\ ev.outcome # "revealed"
        /\ ~RetrieveSecret(ev.resp, ev.call.passphrase).ok
        /\ RetrieveSecret(ev.resp, ev.call.passphrase).error = ev.resp.message
        /\ ev.outcome = "terminal" => ev.shown = ev.resp.message

\* C21: a failure with HTTP status 500, 502 or 503 is terminal whatever its
\* message and with or without a passphrase: it never opens the password
\* prompt, and the error shown is neither the expiry text nor a rate-limit
\* text.
C21_ServerErrorIsTerminal ==
    (Settled /\ ev.resp.kind = "http" /\ ev.resp.status \in {500, 502, 503}) =>
        /\ ev.outcome = "terminal"
        /\ ev.shown \notin {MsgExpired, MsgRateLimited404, MsgRateLimited429}
        /\ ev.scheduled = <<GoHomeIn3000>>

\* C22: every 429 failure, and every 404 failure whose message has a
\* rate-limit marker ('rate limited', 'Cripes!'), whatever else the message
\* contains and with or without a passphrase, is terminal with a 'Muitas
\* tentativas' text and the redirect scheduled.
C22_RateLimitIsReported ==
    (/\ Settled
     /\ \/ IsHttp(ev.resp, 429)
        \/ /\ IsHttp(ev.resp, 404)
           /\ \/ MsgIncludes(ev.resp.message, "rate limited")
              \/ MsgIncludes(ev.resp.message, "Cripes!")) =>
        /\ ev.outcome = "terminal"
        /\ Includes(ev.shown, "Muitas tentativas")
        /\ ev.scheduled = <<GoHomeIn3000>>

\* the markers handleError and the catch of retrieveSecret look for in the
\* message of a 404
Markers404 ==
    {"rate limited", "Cripes!", "expired", "expirado", "consumed", "viewed",
     "visualizado", "no longer available", "Unknown secret", "passphrase",
     "password", "Wrong"}

\* a 404 body that gives no evidence: no message, an empty one, or a text of
\* at most 10 characters with no marker
IsBare404(resp) ==
    /\ IsHttp(resp, 404)
    /\ \/ ~Truthy(resp.message)
       \/ /\ resp.message # NonText
          /\ Len(resp.message) <= 10
          /\ \A k \in Markers404 : ~Includes(resp.message, k)

\* C23: a 404 failure with no message, an empty message or a short message
\* with no marker ends the attempt with 'Segredo expirado ou já
\* visualizado' and the redirect, with and without a passphrase; it never
\* opens the password prompt.
C23_Bare404IsExpired ==
    (Settled /\ IsBare404(ev.resp)) =>
        /\ ev.outcome = "terminal"
        /\ ev.shown = "Segredo expirado ou já visualizado"
        /\ ev.scheduled = <<GoHomeIn3000>> /\ timers = ev.scheduled

\* C23, witness: the first attempt was answered 404 with the short message
\* 'senha', which no test of the service matches
C23_Witness ==
    /\ Settled /\ IsHttp(ev.resp, 404) /\ ev.resp.message = "senha"
    /\ ev.call.attempt = "probe"
    /\ ~state.requiresPassphrase

\* the backend messages in lower case
LowerCased == [m \in MessagesOf(MaxMsgParts) |-> ToLowerCase(m)]

\* C24: the markers are looked for without regard to letter case: for every
\* status and flag, a message that differs from the one received only in
\* the case of its letters is classified to the same transition.
C24_CaseDoesNotMatter ==
    (Settled /\ ev.resp.kind = "http" /\ ev.resp.message \in DOMAIN LowerCased) =>
        \A m \in DOMAIN LowerCased :
            LowerCased[m] = LowerCased[ev.resp.message] =>
                Classify([ev.resp EXCEPT !.message = m],
                         Truthy(ev.call.passphrase)).transition = ev.outcome

\* C25: when a passphrase was supplied and the backend answers 404 with the
\* message 'Unknown secret', the error shown is 'Senha inválida, segredo
\* expirado ou já visualizado'.
C25_UnknownSecretWithPassphrase ==
    (/\ Settled /\ IsHttp(ev.resp, 404) /\ ev.resp.message = "Unknown secret"
     /\ Truthy(ev.call.passphrase)) =>
        ev.shown = "Senha inválida, segredo expirado ou já visualizado"

\* C26: in every reachable state, also after the result of a stale call was
\* applied, the state has the key its view renders: currentView = 'view'
\* implies secretKey is defined, currentView = 'retrieve' implies
\* retrieveKey is defined.
C26_ViewHasItsKey ==
    /\ state.currentView = "view" => state.secretKey # Undef
    /\ state.currentView = "retrieve" => state.retrieveKey # Undef

\* C27: once the content of a secret is revealed it stays displayed until the
\* user navigates: neither the completion of another call in flight nor a
\* timer replaces or removes it.
C27_RevealedContentStays ==
    [][(dom.view = "revealed" /\ ev'.op \in {"settle", "timer"}) => dom' = dom]_vars

\* C28: the redirect scheduled by a terminal outcome ends only the flow that
\* scheduled it: a timer that fires after another route was handled, while
\* the App is in the retrieve flow of the newer route or shows what that
\* flow revealed, leaves the state and the page as they are.
C28_RedirectEndsOnlyItsFlow ==
    [][(ev'.op = "timer" /\ ev'.stale /\ state.currentView \in {"retrieve", "view"})
            => UNCHANGED <<state, dom>>]_vars

\* C29: every entry into a secret route starts a fresh flow: after
\* handleRoute for /secret/<key> the state is currentView = 'retrieve',
\* retrieveKey = key, passphrase = the parameter p of the URL or undefined,
\* secretKey undefined, requiresPassphrase false, whatever the state was;
\* and requiresPassphrase becomes true only when a first attempt without
\* passphrase for the current retrieveKey failed with a passphrase error.
C29_RouteStartsFreshFlow ==
    [][/\ \A key \in Keys, p \in UrlPassphrases :
            (/\ ev'.op = "route"
             /\ state' = RouteState(state, ParseRoute(Url(SecretPrefix \o key, p)))) =>
                /\ state'.currentView = "retrieve"
                /\ state'.retrieveKey = key
                /\ state'.passphrase = (IF Truthy(p) THEN p ELSE Undef)
                /\ state'.secretKey = Undef
                /\ ~state'.requiresPassphrase
       /\ (~state.requiresPassphrase /\ state'.requiresPassphrase) =>
            /\ ev'.op = "settle" /\ ev'.outcome = "prompt"
            /\ ev'.call.attempt = "probe" /\ ev'.call.passphrase = Undef
            /\ ev'.call.key = state'.retrieveKey
            /\ IsFailureResponse(ev'.resp)]_vars

====
